---- MODULE Spec2Model ----
(***************************************************************************)
(* The sorting mini-game of the physics playground (src/unnamed/part_001): *)
(* the game state, the shape registry, the removal animations, the timers  *)
(* and the event handlers that drive them, with the feedback bridge of the *)
(* 3D bucket overlay (src/unnamed/part_000) as the output boundary.        *)
(*                                                                         *)
(* JavaScript runs every handler to completion on one event loop, so each  *)
(* handler is one atomic action.  The positions of bodies belong to the    *)
(* physics engine: a handler that reads a position draws it from Points.   *)
(***************************************************************************)
EXTENDS Integers, Naturals, FiniteSets, Sequences, TLC

\* ------------------------------------------------------------- bounds
\* Body ids the world hands out, 1..NumShapes, in spawn order.
NumShapes == 6
\* Shapes alive in the registry at the same time.
MaxLive == 1
\* Removal animations in flight at the same time.
MaxAnims == 1
\* Countdown intervals that are live but no longer referenced.
MaxStale == 1
\* Win callbacks pending at the same time.
MaxWinTimeouts == 2
\* Countdown ticks taken at or below zero by an interval that outlived its session.
MaxOverrun == 1

\* ------------------------------------------------- program constants
targetCount == 5
InitialTime == 30
bucketWidth == 250
dropZoneHeight == 400
\* let draggedShape = null; mouseConstraint.body = null
NoShape == 0

VARIABLES
    \* gameState
    active, won, timeRemaining, sortedCount, sortedShapes,
    timerInterval,      \* "null" | "live" | "cleared": the interval gameState.timerInterval names
    staleIntervals,     \* live intervals whose id gameState.timerInterval no longer holds
    winTimeouts,        \* pending setTimeout(() => endGame(true), 500) callbacks
    \* DOM
    gameUIHidden, bucketHidden, popupHidden,
    \* registry, physics world, removal animations
    shapes, world, nextId, anims,
    \* drag
    mouseBody,          \* mouseConstraint.body: the body the mouse holds
    draggedShape,
    \* viewport
    width, height,
    \* environment: the bridge functions on window, the Web Audio constructor
    bridgePresent, audioPresent,
    \* the 3D overlay: hover emphasis of each bucket
    glowYellow, glowBlue,
    \* history: reward notifications so far (0, 1, or 2 for more); the last handler
    popupShows, last

vars == <<active, won, timeRemaining, sortedCount, sortedShapes, timerInterval,
          staleIntervals, winTimeouts, gameUIHidden, bucketHidden, popupHidden,
          shapes, world, nextId, anims, mouseBody, draggedShape, width, height,
          bridgePresent, audioPresent, glowYellow, glowBlue, popupShows, last>>

\* ----------------------------------------------------------- the world
Bodies == 1..NumShapes
\* ground, walls, door: bodies of the world that are no shape
StaticBody == NumShapes + 1

colors == <<"#FF0000", "#0000FF", "#FFFF00", "#4CBB17">>
shapeTypes == <<"cube", "pyramid", "sphere", "cylinder", "diamond">>

\* createShape draws colour and type at random; the model fixes one draw per id.
SpawnColor == <<3, 2, 3, 1, 4, 3, 1>>
SpawnType == <<3, 1, 1, 1, 1, 2, 3>>
ColorOf(b) == colors[SpawnColor[((b - 1) % Len(SpawnColor)) + 1]]
TypeOf(b) == shapeTypes[SpawnType[((b - 1) % Len(SpawnType)) + 1]]

\* window.innerWidth x window.innerHeight: a phone, where the two drop zones
\* overlap (width < 2 * bucketWidth), and a desktop window
Viewports == {<<400, 600>>, <<1000, 800>>}
InitialViewport == <<400, 600>>
\* Positions a handler may read: inside, on each edge of, and just outside the
\* two drop zones of both viewports.
Points ==
    {[x |-> 0, y |-> 160], [x |-> 250, y |-> 520], [x |-> 251, y |-> 120],
     [x |-> 200, y |-> 300], [x |-> 400, y |-> 300], [x |-> 750, y |-> 560],
     [x |-> 1000, y |-> 160], [x |-> 200, y |-> 119], [x |-> 750, y |-> 561]}

\* height * 0.2 (exact for the heights of Viewports)
topOffset(h) == (h * 2) \div 10

\* getBucketBounds returning the rectangles computed for the viewport the page
\* was loaded in
getBucketBounds_initialViewport(w, h) ==
    [yellow |-> [left |-> 0, right |-> bucketWidth,
                 top |-> topOffset(InitialViewport[2]),
                 bottom |-> topOffset(InitialViewport[2]) + dropZoneHeight],
     blue   |-> [left |-> InitialViewport[1] - bucketWidth, right |-> InitialViewport[1],
                 top |-> topOffset(InitialViewport[2]),
                 bottom |-> topOffset(InitialViewport[2]) + dropZoneHeight]]

getBucketBounds(w, h) ==
    [yellow |-> [left |-> 0, right |-> bucketWidth,
                 top |-> topOffset(h), bottom |-> topOffset(h) + dropZoneHeight],
     blue   |-> [left |-> w - bucketWidth, right |-> w,
                 top |-> topOffset(h), bottom |-> topOffset(h) + dropZoneHeight]]

\* isShapeInBucket with the right edge excluded
isShapeInBucket_rightExclusive(shapePos, bucketBounds) ==
    /\ shapePos.x >= bucketBounds.left
    /\ shapePos.x < bucketBounds.right
    /\ shapePos.y >= bucketBounds.top
    /\ shapePos.y <= bucketBounds.bottom

isShapeInBucket(shapePos, bucketBounds) ==
    /\ shapePos.x >= bucketBounds.left
    /\ shapePos.x <= bucketBounds.right
    /\ shapePos.y >= bucketBounds.top
    /\ shapePos.y <= bucketBounds.bottom

\* ------------------------------------------------------------ history
\* The zones whose rectangle holds p in the current viewport.
zonesAt(p) ==
    {z \in {"yellow", "blue"} : isShapeInBucket(p, getBucketBounds(width, height)[z])}
\* What the last handler did besides changing the state, when it was a drag
\* handler: the zones whose rectangle holds the position it read, the cues it played, the flash calls it made on
\* the bridge, the win callbacks it scheduled, whether it threw; when it was a
\* win callback: how many calls of endGame(true) in a row it ends (1 or 2, 2
\* standing for more).  Any other handler leaves NoDrag.
Quiet(op, b, z) ==
    [op |-> op, body |-> b, zones |-> z, pickup |-> 0, success |-> 0,
     flashYellow |-> 0, flashBlue |-> 0, scheduled |-> 0, threw |-> FALSE,
     endedWon |-> 0]
NoDrag == Quiet("none", NoShape, {})

GameVars == <<active, timeRemaining, sortedCount, sortedShapes, timerInterval,
              staleIntervals, gameUIHidden, bucketHidden>>
EnvVars == <<bridgePresent, audioPresent>>
ViewVars == <<width, height>>
RegistryVars == <<shapes, world, nextId>>

\* ------------------------------------------------------------ startGame
\* startGame without sortedShapes.clear()
startGame_keepsSortedShapes ==
    /\ active' = TRUE
    /\ timeRemaining' = InitialTime
    /\ sortedCount' = 0
    /\ UNCHANGED sortedShapes
    /\ gameUIHidden' = FALSE
    /\ bucketHidden' = FALSE
    /\ staleIntervals' = IF timerInterval = "live" THEN staleIntervals + 1
                                                  ELSE staleIntervals
    /\ timerInterval' = "live"

startGame ==
    /\ active' = TRUE
    /\ timeRemaining' = InitialTime
    /\ sortedCount' = 0
    /\ sortedShapes' = {}
    /\ gameUIHidden' = FALSE
    /\ bucketHidden' = FALSE
    \* setInterval: the id overwrites gameState.timerInterval, nothing is cleared
    /\ staleIntervals' = IF timerInterval = "live" THEN staleIntervals + 1
                                                  ELSE staleIntervals
    /\ timerInterval' = "live"

\* triggerGameStart without the !gameState.won test
triggerGameStart_ignoresWon ==
    IF ~active THEN startGame ELSE UNCHANGED GameVars

triggerGameStart ==
    IF ~active /\ ~won THEN startGame ELSE UNCHANGED GameVars

\* -------------------------------------------------------------- endGame
\* endGame without bucketContainer.classList.add('hidden')
endGame_keepsBucketVisible(w) ==
    /\ active' = FALSE
    /\ timerInterval' = IF timerInterval = "live" THEN "cleared" ELSE timerInterval
    /\ gameUIHidden' = TRUE
    /\ UNCHANGED bucketHidden
    /\ IF w THEN /\ won' = TRUE
                 /\ popupHidden' = FALSE
                 /\ popupShows' = IF popupShows = 0 THEN 1 ELSE 2
            ELSE UNCHANGED <<won, popupHidden, popupShows>>

\* endGame with gameState.active = !gameState.active
endGame_togglesActive(w) ==
    /\ active' = ~active
    /\ timerInterval' = IF timerInterval = "live" THEN "cleared" ELSE timerInterval
    /\ gameUIHidden' = TRUE
    /\ bucketHidden' = TRUE
    /\ IF w THEN /\ won' = TRUE
                 /\ popupHidden' = FALSE
                 /\ popupShows' = IF popupShows = 0 THEN 1 ELSE 2
            ELSE UNCHANGED <<won, popupHidden, popupShows>>

endGame(w) ==
    /\ active' = FALSE
    \* clearInterval(gameState.timerInterval): only the interval it names
    /\ timerInterval' = IF timerInterval = "live" THEN "cleared" ELSE timerInterval
    /\ gameUIHidden' = TRUE
    /\ bucketHidden' = TRUE
    /\ IF w THEN /\ won' = TRUE
                 /\ popupHidden' = FALSE
                 /\ popupShows' = IF popupShows = 0 THEN 1 ELSE 2
            ELSE UNCHANGED <<won, popupHidden, popupShows>>

\* ---------------------------------------------------------- removeShape
\* progress after n additions of 0.1 is n/10 + SumErr[n] * 1e-16 in IEEE doubles:
\* 0.1, 0.2, 0.30000000000000004, 0.4, ..., 0.7999999999999999, ..., 0.9999999999999999
SumErr == <<0, 0, 4, 0, 0, 0, 0, -1, -1, -1, -1>>
\* progress >= 1, after n additions
ProgressDone(n) == n > 10 \/ (n = 10 /\ SumErr[n] >= 0)

\* removeShape(shape): the first animateInto call runs at once (progress 0.1)
\* and asks for the next frame.
removeShape(b) == anims' = anims \cup {<<b, 1>>}

\* animateInto that stops when the session is not active
animateInto_onlyWhileActive ==
    IF active
    THEN /\ anims' = {<<a[1], a[2] + 1>> : a \in {x \in anims : ~ProgressDone(x[2] + 1)}}
         /\ world' = world \ {a[1] : a \in {x \in anims : ProgressDone(x[2] + 1)}}
         /\ shapes' = shapes \ {a[1] : a \in {x \in anims : ProgressDone(x[2] + 1)}}
    ELSE UNCHANGED <<anims, world, shapes>>

\* One animation frame: every pending animateInto callback runs once.
Finishing == {a \in anims : ProgressDone(a[2] + 1)}
animateInto ==
    /\ anims' = {<<a[1], a[2] + 1>> : a \in anims \ Finishing}
    /\ world' = world \ {a[1] : a \in Finishing}
    /\ shapes' = shapes \ {a[1] : a \in Finishing}

\* ------------------------------------------------- checkShapePlacement
\* the yellow bucket crediting a shape of any colour
placement_anyColor(b, p) ==
    LET buckets == getBucketBounds(width, height) IN
    IF ~active \/ b \in sortedShapes THEN "none"
    ELSE IF isShapeInBucket(p, buckets.yellow) THEN "yellow"
    ELSE IF isShapeInBucket(p, buckets.blue) /\ TypeOf(b) = "cube" THEN "blue"
    ELSE "none"

\* the blue bucket crediting a shape of any type
placement_anyType(b, p) ==
    LET buckets == getBucketBounds(width, height) IN
    IF ~active \/ b \in sortedShapes THEN "none"
    ELSE IF isShapeInBucket(p, buckets.yellow) /\ ColorOf(b) = "#FFFF00" THEN "yellow"
    ELSE IF isShapeInBucket(p, buckets.blue) THEN "blue"
    ELSE "none"

\* checkShapePlacement without the sortedShapes.has(shape.body.id) guard
placement_noCreditGuard(b, p) ==
    LET buckets == getBucketBounds(width, height) IN
    IF ~active THEN "none"
    ELSE IF isShapeInBucket(p, buckets.yellow) /\ ColorOf(b) = "#FFFF00" THEN "yellow"
    ELSE IF isShapeInBucket(p, buckets.blue) /\ TypeOf(b) = "cube" THEN "blue"
    ELSE "none"

\* The bucket that credits shape b at position p, "none" when none does.
placement(b, p) ==
    LET buckets == getBucketBounds(width, height) IN
    IF ~active \/ b \in sortedShapes THEN "none"
    ELSE IF isShapeInBucket(p, buckets.yellow) /\ ColorOf(b) = "#FFFF00" THEN "yellow"
    ELSE IF isShapeInBucket(p, buckets.blue) /\ TypeOf(b) = "cube" THEN "blue"
    ELSE "none"

\* playPickupSound / playBucketSound: new (undefined)() throws without Web Audio
soundThrows == ~audioPresent

\* checkShapePlacement animating into the bucket every shape dropped in a
\* rectangle, credited or not
checkShapePlacement_removesMismatch(b, p) ==
    LET zone == placement(b, p)
        reached == sortedCount + 1 >= targetCount IN
    IF zone = "none"
    THEN /\ UNCHANGED <<sortedShapes, sortedCount, winTimeouts>>
         /\ IF active /\ zonesAt(p) # {} THEN removeShape(b) ELSE UNCHANGED anims
         /\ last' = Quiet("enddrag", b, zonesAt(p))
    ELSE /\ sortedShapes' = sortedShapes \cup {b}
         /\ sortedCount' = sortedCount + 1
         /\ IF soundThrows
            THEN /\ UNCHANGED <<anims, winTimeouts>>
                 /\ last' = [Quiet("enddrag", b, zonesAt(p)) EXCEPT !.threw = TRUE]
            ELSE /\ removeShape(b)
                 /\ winTimeouts' = IF reached THEN winTimeouts + 1 ELSE winTimeouts
                 /\ last' = [Quiet("enddrag", b, zonesAt(p)) EXCEPT
                               !.success = 1,
                               !.flashYellow = IF zone = "yellow" /\ bridgePresent THEN 1 ELSE 0,
                               !.flashBlue = IF zone = "blue" /\ bridgePresent THEN 1 ELSE 0,
                               !.scheduled = IF reached THEN 1 ELSE 0]

\* checkShapePlacement without the return that ends the yellow branch: a
\* shape that matches both buckets is credited by each
checkShapePlacement_noReturn(b, p) ==
    LET buckets == getBucketBounds(width, height)
        yellow == /\ active /\ b \notin sortedShapes
                  /\ isShapeInBucket(p, buckets.yellow) /\ ColorOf(b) = "#FFFF00"
        blue == /\ active /\ b \notin sortedShapes
                /\ isShapeInBucket(p, buckets.blue) /\ TypeOf(b) = "cube"
        n == (IF yellow THEN 1 ELSE 0) + (IF blue THEN 1 ELSE 0)
        reached == sortedCount + n >= targetCount IN
    IF n = 0
    THEN /\ UNCHANGED <<sortedShapes, sortedCount, anims, winTimeouts>>
         /\ last' = Quiet("enddrag", b, zonesAt(p))
    ELSE /\ sortedShapes' = sortedShapes \cup {b}
         /\ sortedCount' = sortedCount + n
         /\ IF soundThrows
            THEN /\ UNCHANGED <<anims, winTimeouts>>
                 /\ last' = [Quiet("enddrag", b, zonesAt(p)) EXCEPT !.threw = TRUE]
            ELSE /\ removeShape(b)
                 /\ winTimeouts' = IF reached THEN winTimeouts + 1 ELSE winTimeouts
                 /\ last' = [Quiet("enddrag", b, zonesAt(p)) EXCEPT
                               !.success = n,
                               !.flashYellow = IF yellow /\ bridgePresent THEN 1 ELSE 0,
                               !.flashBlue = IF blue /\ bridgePresent THEN 1 ELSE 0,
                               !.scheduled = IF reached THEN 1 ELSE 0]

\* checkShapePlacement calling window.highlightYellowBucket() and
\* window.highlightBlueBucket() without the presence test: the call throws
\* when the function is undefined, after the cue and removeShape
checkShapePlacement_unguardedFlash(b, p) ==
    LET zone == placement(b, p)
        reached == sortedCount + 1 >= targetCount IN
    IF zone = "none"
    THEN /\ UNCHANGED <<sortedShapes, sortedCount, anims, winTimeouts>>
         /\ last' = Quiet("enddrag", b, zonesAt(p))
    ELSE /\ sortedShapes' = sortedShapes \cup {b}
         /\ sortedCount' = sortedCount + 1
         /\ IF soundThrows
            THEN /\ UNCHANGED <<anims, winTimeouts>>
                 /\ last' = [Quiet("enddrag", b, zonesAt(p)) EXCEPT !.threw = TRUE]
            ELSE /\ removeShape(b)
                 /\ IF bridgePresent
                    THEN /\ winTimeouts' = IF reached THEN winTimeouts + 1 ELSE winTimeouts
                         /\ last' = [Quiet("enddrag", b, zonesAt(p)) EXCEPT
                                       !.success = 1,
                                       !.flashYellow = IF zone = "yellow" THEN 1 ELSE 0,
                                       !.flashBlue = IF zone = "blue" THEN 1 ELSE 0,
                                       !.scheduled = IF reached THEN 1 ELSE 0]
                    ELSE /\ UNCHANGED winTimeouts
                         /\ last' = [Quiet("enddrag", b, zonesAt(p)) EXCEPT
                                       !.success = 1, !.threw = TRUE]

checkShapePlacement(b, p) ==
    LET zone == placement(b, p)
        reached == sortedCount + 1 >= targetCount IN
    IF zone = "none"
    THEN /\ UNCHANGED <<sortedShapes, sortedCount, anims, winTimeouts>>
         /\ last' = Quiet("enddrag", b, zonesAt(p))
    ELSE /\ sortedShapes' = sortedShapes \cup {b}
         /\ sortedCount' = sortedCount + 1
         /\ IF soundThrows
            THEN /\ UNCHANGED <<anims, winTimeouts>>
                 /\ last' = [Quiet("enddrag", b, zonesAt(p)) EXCEPT !.threw = TRUE]
            ELSE /\ removeShape(b)
                 /\ winTimeouts' = IF reached THEN winTimeouts + 1 ELSE winTimeouts
                 /\ last' = [Quiet("enddrag", b, zonesAt(p)) EXCEPT
                               !.success = 1,
                               !.flashYellow = IF zone = "yellow" /\ bridgePresent THEN 1 ELSE 0,
                               !.flashBlue = IF zone = "blue" /\ bridgePresent THEN 1 ELSE 0,
                               !.scheduled = IF reached THEN 1 ELSE 0]

\* ------------------------------------------------------------- handlers
find(b) == IF b \in shapes THEN b ELSE NoShape

\* Events.on(mouseConstraint, 'startdrag')
StartDrag(b) ==
    /\ mouseBody = NoShape
    /\ b \in world \cup {StaticBody}
    /\ mouseBody' = b
    /\ triggerGameStart
    /\ IF soundThrows
       THEN /\ UNCHANGED draggedShape
            /\ last' = [Quiet("startdrag", b, {}) EXCEPT !.threw = TRUE]
       ELSE /\ draggedShape' = find(b)
            /\ last' = [Quiet("startdrag", b, {}) EXCEPT !.pickup = 1]
    /\ UNCHANGED <<won, winTimeouts, popupHidden, popupShows, anims, glowYellow, glowBlue>>
    /\ UNCHANGED <<RegistryVars, ViewVars, EnvVars>>

\* the afterUpdate handler without the colour and type tests
AfterUpdate_anyShapeGlows(p) ==
    /\ IF ~active \/ draggedShape = NoShape
       THEN UNCHANGED <<glowYellow, glowBlue>>
       ELSE LET buckets == getBucketBounds(width, height) IN
            IF bridgePresent
            THEN /\ glowYellow' = isShapeInBucket(p, buckets.yellow)
                 /\ glowBlue' = isShapeInBucket(p, buckets.blue)
            ELSE UNCHANGED <<glowYellow, glowBlue>>
    /\ last' = NoDrag
    /\ UNCHANGED <<GameVars, won, winTimeouts, popupHidden, popupShows, anims,
                   mouseBody, draggedShape>>
    /\ UNCHANGED <<RegistryVars, ViewVars, EnvVars>>

\* Events.on(engine, 'afterUpdate'): p is the position of the held shape
AfterUpdate(p) ==
    /\ IF ~active \/ draggedShape = NoShape
       THEN UNCHANGED <<glowYellow, glowBlue>>
       ELSE LET buckets == getBucketBounds(width, height)
                nearYellow == isShapeInBucket(p, buckets.yellow)
                                /\ ColorOf(draggedShape) = "#FFFF00"
                nearBlue == isShapeInBucket(p, buckets.blue)
                                /\ TypeOf(draggedShape) = "cube" IN
            IF bridgePresent
            THEN glowYellow' = nearYellow /\ glowBlue' = nearBlue
            ELSE UNCHANGED <<glowYellow, glowBlue>>
    /\ last' = NoDrag
    /\ UNCHANGED <<GameVars, won, winTimeouts, popupHidden, popupShows, anims,
                   mouseBody, draggedShape>>
    /\ UNCHANGED <<RegistryVars, ViewVars, EnvVars>>

\* the enddrag handler clearing the glow only in an Active session
EndDrag_clearsGlowOnlyWhenActive(p) ==
    LET b == mouseBody IN
    /\ mouseBody # NoShape
    \* bounds: no shape that is still uncredited is dropped while MaxAnims
    \* animations are in flight, or while MaxWinTimeouts win callbacks are
    \* pending and one more credit would schedule another
    /\ (b \in shapes /\ b \notin sortedShapes) =>
          /\ Cardinality(anims) < MaxAnims
          /\ sortedCount + 1 >= targetCount => winTimeouts < MaxWinTimeouts
    /\ mouseBody' = NoShape
    /\ IF bridgePresent /\ active THEN glowYellow' = FALSE /\ glowBlue' = FALSE
                        ELSE UNCHANGED <<glowYellow, glowBlue>>
    /\ IF active /\ b \in shapes
       THEN /\ checkShapePlacement(b, p)
            /\ draggedShape' = IF last'.threw THEN draggedShape ELSE NoShape
       ELSE /\ UNCHANGED <<sortedShapes, sortedCount, anims, winTimeouts>>
            /\ draggedShape' = NoShape
            /\ last' = Quiet("enddrag", b, zonesAt(p))
    /\ UNCHANGED <<active, timeRemaining, timerInterval, staleIntervals,
                   gameUIHidden, bucketHidden, won, popupHidden, popupShows>>
    /\ UNCHANGED <<RegistryVars, ViewVars, EnvVars>>

\* Events.on(mouseConstraint, 'enddrag'): the body is the one the mouse holds
EndDrag(p) ==
    LET b == mouseBody IN
    /\ mouseBody # NoShape
    \* bounds: no shape that is still uncredited is dropped while MaxAnims
    \* animations are in flight, or while MaxWinTimeouts win callbacks are
    \* pending and one more credit would schedule another
    /\ (b \in shapes /\ b \notin sortedShapes) =>
          /\ Cardinality(anims) < MaxAnims
          /\ sortedCount + 1 >= targetCount => winTimeouts < MaxWinTimeouts
    /\ mouseBody' = NoShape
    /\ IF bridgePresent THEN glowYellow' = FALSE /\ glowBlue' = FALSE
                        ELSE UNCHANGED <<glowYellow, glowBlue>>
    /\ IF active /\ b \in shapes
       THEN /\ checkShapePlacement(b, p)
            /\ draggedShape' = IF last'.threw THEN draggedShape ELSE NoShape
       ELSE /\ UNCHANGED <<sortedShapes, sortedCount, anims, winTimeouts>>
            /\ draggedShape' = NoShape
            /\ last' = Quiet("enddrag", b, zonesAt(p))
    /\ UNCHANGED <<active, timeRemaining, timerInterval, staleIntervals,
                   gameUIHidden, bucketHidden, won, popupHidden, popupShows>>
    /\ UNCHANGED <<RegistryVars, ViewVars, EnvVars>>

\* the setInterval callback without the call of endGame(false) at 0
CountdownTick_withoutTimeout ==
    /\ timerInterval = "live" \/ staleIntervals > 0
    /\ timeRemaining > -MaxOverrun
    /\ timeRemaining' = timeRemaining - 1
    /\ UNCHANGED <<active, timerInterval, gameUIHidden, bucketHidden,
                   won, popupHidden, popupShows>>
    /\ last' = NoDrag
    /\ UNCHANGED <<sortedCount, sortedShapes, staleIntervals, winTimeouts, anims,
                   mouseBody, draggedShape, glowYellow, glowBlue>>
    /\ UNCHANGED <<RegistryVars, ViewVars, EnvVars>>

\* the setInterval callback of startGame, run by any live interval
CountdownTick ==
    /\ timerInterval = "live" \/ staleIntervals > 0
    /\ timeRemaining > -MaxOverrun
    /\ timeRemaining' = timeRemaining - 1
    /\ IF timeRemaining' <= 0
       THEN endGame(FALSE)
       ELSE UNCHANGED <<active, timerInterval, gameUIHidden, bucketHidden,
                        won, popupHidden, popupShows>>
    /\ last' = NoDrag
    /\ UNCHANGED <<sortedCount, sortedShapes, staleIntervals, winTimeouts, anims,
                   mouseBody, draggedShape, glowYellow, glowBlue>>
    /\ UNCHANGED <<RegistryVars, ViewVars, EnvVars>>

\* setTimeout(() => endGame(true), 500) comes due
WinTimeout ==
    /\ winTimeouts > 0
    /\ winTimeouts' = winTimeouts - 1
    /\ endGame(TRUE)
    /\ last' = [NoDrag EXCEPT !.op = "winTimeout",
                                !.endedWon = IF last.endedWon = 0 THEN 1 ELSE 2]
    /\ UNCHANGED <<timeRemaining, sortedCount, sortedShapes, staleIntervals, anims,
                   mouseBody, draggedShape, glowYellow, glowBlue>>
    /\ UNCHANGED <<RegistryVars, ViewVars, EnvVars>>

\* requestAnimationFrame: the frame runs the pending animateInto callbacks
AnimationFrame ==
    /\ anims # {}
    /\ animateInto
    /\ nextId' = nextId
    /\ last' = NoDrag
    /\ UNCHANGED <<GameVars, won, winTimeouts, popupHidden, popupShows,
                   mouseBody, draggedShape, glowYellow, glowBlue>>
    /\ UNCHANGED <<ViewVars, EnvVars>>

\* startGameBtn.addEventListener('click', startGame)
StartButtonClick ==
    /\ timerInterval = "live" => staleIntervals < MaxStale
    /\ startGame
    /\ last' = NoDrag
    /\ UNCHANGED <<won, winTimeouts, popupHidden, popupShows, anims,
                   mouseBody, draggedShape, glowYellow, glowBlue>>
    /\ UNCHANGED <<RegistryVars, ViewVars, EnvVars>>

\* closePopupBtn click
ClosePopupClick ==
    /\ ~popupHidden
    /\ popupHidden' = TRUE
    /\ last' = NoDrag
    /\ UNCHANGED <<GameVars, won, winTimeouts, popupShows, anims,
                   mouseBody, draggedShape, glowYellow, glowBlue>>
    /\ UNCHANGED <<RegistryVars, ViewVars, EnvVars>>

\* window resize listener
Resize(v) ==
    /\ v # <<width, height>>
    /\ width' = v[1]
    /\ height' = v[2]
    /\ last' = NoDrag
    /\ UNCHANGED <<GameVars, won, winTimeouts, popupHidden, popupShows, anims,
                   mouseBody, draggedShape, glowYellow, glowBlue>>
    /\ UNCHANGED <<RegistryVars, EnvVars>>

\* createShape, from spawnShape's timer and the initial burst
createShape ==
    /\ nextId <= NumShapes
    /\ Cardinality(shapes) < MaxLive
    /\ shapes' = shapes \cup {nextId}
    /\ world' = world \cup {nextId}
    /\ nextId' = nextId + 1
    /\ last' = NoDrag
    /\ UNCHANGED <<GameVars, won, winTimeouts, popupHidden, popupShows, anims,
                   mouseBody, draggedShape, glowYellow, glowBlue>>
    /\ UNCHANGED <<ViewVars, EnvVars>>

\* ----------------------------------------------------- specification
InitGame ==
    /\ active = FALSE /\ won = FALSE
    /\ timeRemaining = InitialTime
    /\ sortedCount = 0 /\ sortedShapes = {}
    /\ timerInterval = "null" /\ staleIntervals = 0 /\ winTimeouts = 0
    /\ gameUIHidden = TRUE /\ bucketHidden = TRUE /\ popupHidden = TRUE
    /\ shapes = {} /\ world = {} /\ nextId = 1 /\ anims = {}
    /\ mouseBody = NoShape /\ draggedShape = NoShape
    /\ width = InitialViewport[1] /\ height = InitialViewport[2]
    /\ glowYellow = FALSE /\ glowBlue = FALSE
    /\ popupShows = 0
    /\ last = NoDrag

\* The page with the bucket overlay loaded, in a browser with Web Audio.
Init == InitGame /\ bridgePresent = TRUE /\ audioPresent = TRUE

Next ==
    \/ createShape
    \/ \E b \in Bodies \cup {StaticBody} : StartDrag(b)
    \/ \E p \in Points : AfterUpdate(p)
    \/ \E p \in Points : EndDrag(p)
    \/ CountdownTick
    \/ WinTimeout
    \/ AnimationFrame
    \/ StartButtonClick
    \/ ClosePopupClick

Spec == Init /\ [][Next]_vars

\* The same page in a window the user resizes.
NextResize == Next \/ \E v \in Viewports : Resize(v)
SpecResize == Init /\ [][NextResize]_vars

\* The resizable page between two callbacks of the countdown: every handler
\* but the setInterval callback, which neither reads nor writes the viewport.
NextView ==
    \/ createShape
    \/ \E b \in Bodies \cup {StaticBody} : StartDrag(b)
    \/ \E p \in Points : AfterUpdate(p)
    \/ \E p \in Points : EndDrag(p)
    \/ WinTimeout
    \/ AnimationFrame
    \/ StartButtonClick
    \/ ClosePopupClick
    \/ \E v \in Viewports : Resize(v)
SpecView == Init /\ [][NextView]_vars

\* The handlers that drive the session, the registry and the animations, with
\* the browser's scheduling: a visible page gets its animation frames, and
\* timers that are set come due.
NextFair ==
    \/ createShape
    \/ \E b \in Bodies \cup {StaticBody} : StartDrag(b)
    \/ \E p \in Points : EndDrag(p)
    \/ CountdownTick
    \/ WinTimeout
    \/ AnimationFrame
SpecFair ==
    /\ Init
    /\ [][NextFair]_vars
    /\ WF_vars(AnimationFrame)
    /\ WF_vars(WinTimeout)
    /\ WF_vars(CountdownTick)

\* The same page in any environment: the bucket overlay loaded or not
\* (window.setBucketGlow and the highlight functions defined or not), Web
\* Audio supported or not.
InitEnv == InitGame /\ bridgePresent \in BOOLEAN /\ audioPresent \in BOOLEAN
SpecEnv == InitEnv /\ [][Next]_vars

TypeOK ==
    /\ active \in BOOLEAN /\ won \in BOOLEAN
    /\ timeRemaining \in -MaxOverrun..InitialTime
    /\ sortedCount \in Nat
    /\ sortedShapes \subseteq Bodies

\* =============================================================== claims
\* The session fields a claim calls "the session", with the countdown
\* intervals that are live.
Session == <<active, won, timeRemaining, sortedCount, sortedShapes,
             timerInterval, staleIntervals>>
LiveIntervals == staleIntervals + (IF timerInterval = "live" THEN 1 ELSE 0)
\* A step that calls startGame's entry points: the drag start (through
\* triggerGameStart) or the start button's click listener.
StartGamePath == StartButtonClick \/ \E b \in Bodies \cup {StaticBody} : StartDrag(b)

\* C1: a call of startGame by any path (drag start or start-button click)
\* while won is true changes none of active, won, timeRemaining, sortedCount,
\* sortedShapes and creates no countdown interval.
C1_StartGameWhenWonIsNoOp ==
    [][(won /\ StartGamePath) => UNCHANGED Session]_vars

\* C2: active and won are never both true; won is never reset, so this also
\* says that once won is true active stays false.
C2_NeverActiveAndWon == ~(active /\ won)

\* C3: over any execution the reward notification is triggered at most once.
C3_RewardAtMostOnce == popupShows <= 1

\* C4: whenever the session is not Active no countdown interval is live.
C4_NoIntervalUnlessActive == ~active => LiveIntervals = 0

\* C5: sortedCount equals the number of ids in sortedShapes in every
\* reachable state.
C5_CountIsSetSize == sortedCount = Cardinality(sortedShapes)
\* a second session, after a drop credited in it
C5_Witness ==
    /\ last.op = "enddrag" /\ last.success = 1
    /\ sortedCount = 1 /\ sortedShapes = {last.body} /\ nextId > 2

\* ---- the zones, as the claims state them
Zones == {"yellow", "blue"}
\* containsPoint(rect, point): inclusive bounds on all four edges
containsPoint(rect, point) ==
    /\ point.x >= rect.left /\ point.x <= rect.right
    /\ point.y >= rect.top /\ point.y <= rect.bottom
\* the acceptance predicate of each zone
Satisfies(b, z) ==
    \/ z = "yellow" /\ ColorOf(b) = "#FFFF00"
    \/ z = "blue" /\ TypeOf(b) = "cube"
InZone(p, z) == containsPoint(getBucketBounds(width, height)[z], p)
QualifiesFor(b, p, z) == InZone(p, z) /\ Satisfies(b, z)
\* the step is a dragEnd of a shape of the registry in an Active session
DropsShape == mouseBody # NoShape /\ mouseBody' = NoShape /\ active /\ mouseBody \in shapes
NoFeedback ==
    /\ last'.success = 0 /\ last'.flashYellow = 0 /\ last'.flashBlue = 0
    /\ last'.scheduled = 0

\* C6: of two calls of endGame(true) in succession only the first changes
\* the session: the second leaves active, won, timeRemaining, sortedCount,
\* sortedShapes and the live countdown intervals as the first left them.
C6_SecondEndGameTrueChangesNothing ==
    [][(last.endedWon >= 1 /\ WinTimeout) => UNCHANGED Session]_vars
C6_Witness == last.endedWon = 2 /\ won /\ ~active

\* C7: sortedCount increases only, and by one, in a dragEnd in an Active
\* session of a shape whose position lies in a zone whose predicate its
\* classification satisfies; it decreases only by startGame's reset to 0.
C7_CountChangesOnlyByCreditOrReset ==
    [][/\ sortedCount' > sortedCount =>
            /\ sortedCount' = sortedCount + 1
            /\ DropsShape
            /\ \E p \in Points :
                 (\E z \in Zones : QualifiesFor(mouseBody, p, z)) /\ EndDrag(p)
       /\ sortedCount' < sortedCount => sortedCount' = 0 /\ StartGamePath
      ]_vars
\* a credit, and later a reset by a new session
C7_Witness == last.op = "enddrag" /\ last.success = 1 /\ sortedCount = 3

\* what a credit does to the session, and the cue it plays
Credited(b) ==
    /\ sortedShapes' = sortedShapes \cup {b}
    /\ sortedCount' = sortedCount + 1
    /\ last'.success = 1
\* one flash call for zone z, none for the other zone
FlashesOnly(z) ==
    IF z = "yellow" THEN last'.flashYellow = 1 /\ last'.flashBlue = 0
                    ELSE last'.flashYellow = 0 /\ last'.flashBlue = 1
\* the zones are tried in a fixed order, yellow first
FirstZone(b, p) == IF QualifiesFor(b, p, "yellow") THEN "yellow" ELSE "blue"

\* C8 (as claimed): in an Active session the dragEnd of an uncredited shape
\* that lies in a zone's rectangle (edges inclusive) and satisfies that zone's
\* predicate adds its id to sortedShapes, raises sortedCount by one, plays the
\* success cue once, flashes that zone once and the other zone not at all.
C8_FlashesTheZoneItQualifiesFor ==
    [][(DropsShape /\ mouseBody \notin sortedShapes) =>
         \A p \in Points : \A z \in Zones :
            (QualifiesFor(mouseBody, p, z) /\ EndDrag(p))
               => Credited(mouseBody) /\ FlashesOnly(z)]_vars
\* C8 (as amended): the same drop credits the shape and plays the cue once,
\* and the one zone it flashes is the yellow zone if the shape qualifies for
\* it, else the blue zone.
C8_FlashesTheFirstZoneItQualifiesFor ==
    [][(DropsShape /\ mouseBody \notin sortedShapes) =>
         \A p \in Points : \A z \in Zones :
            (QualifiesFor(mouseBody, p, z) /\ EndDrag(p))
               => Credited(mouseBody) /\ FlashesOnly(FirstZone(mouseBody, p))]_vars
\* a yellow cube credited where the two rectangles overlap
C8_Witness ==
    /\ last.op = "enddrag" /\ last.success = 1 /\ last.zones = Zones
    /\ Satisfies(last.body, "yellow") /\ Satisfies(last.body, "blue")
    /\ last.body \in sortedShapes /\ last.flashYellow = 1 /\ last.flashBlue = 0

\* an animation of shape b is in flight
Animating(b) == \E a \in anims : a[1] = b
\* C9: a credited shape's animation starts in the crediting drop (first step
\* done), every frame advances every animation in flight by one step whatever
\* the session does, the frame after the tenth step removes the shape from the
\* registry and the world and no step removes one sooner, and so every credited
\* shape is eventually removed.
C9_CreditedShapeIsRemoved ==
    /\ [][\A b \in Bodies : b \in sortedShapes' \ sortedShapes => <<b, 1>> \in anims']_vars
    /\ [][AnimationFrame =>
            \A a \in anims :
               IF a[2] < 10 THEN <<a[1], a[2] + 1>> \in anims'
                            ELSE a[1] \notin shapes' /\ a[1] \notin world']_vars
    /\ [][\A b \in (shapes \ shapes') \cup (world \ world') : <<b, 10>> \in anims]_vars
    /\ \A b \in Bodies : Animating(b) ~> (b \notin shapes /\ b \notin world)
\* a shape removed by its animation after its session timed out
C9_Witness ==
    /\ \E b \in Bodies : b < nextId /\ b \notin shapes /\ b \notin world
    /\ ~active /\ ~won /\ timeRemaining = 0 /\ sortedCount = 1 /\ anims = {}
    /\ nextId = 2

\* C10: in an Active session the dragEnd of a shape that lies in a zone
\* rectangle and satisfies the predicate of no zone it lies in changes nothing
\* of the session and the registry, plays no cue, flashes no zone and
\* schedules no win callback.
C10_MismatchedDropChangesNothing ==
    [][DropsShape =>
         \A p \in Points :
            (/\ \E z \in Zones : InZone(p, z)
             /\ \A z \in Zones : ~QualifiesFor(mouseBody, p, z)
             /\ EndDrag(p))
               => /\ UNCHANGED <<sortedCount, sortedShapes, timeRemaining, active, won,
                                 shapes, world, anims, winTimeouts>>
                  /\ NoFeedback]_vars
\* a shape that is no cube (a yellow one) dropped in the blue rectangle only
C10_Witness ==
    /\ last.op = "enddrag" /\ last.zones = {"blue"} /\ active
    /\ last.body \in shapes /\ ~Satisfies(last.body, "blue")
    /\ last.success = 0

\* C11: within one session an id is credited at most once: the dragEnd of a
\* shape whose id is already in sortedShapes changes neither sortedCount nor
\* sortedShapes, plays no cue, makes no flash call, starts no second removal
\* animation and schedules no win callback.
C11_CreditedShapeIsNotCreditedAgain ==
    [][(DropsShape /\ mouseBody \in sortedShapes) =>
          /\ UNCHANGED <<sortedCount, sortedShapes, anims, winTimeouts>>
          /\ NoFeedback]_vars
\* a credited shape, still animating, dropped again in a zone it qualifies for
C11_Witness ==
    /\ last.op = "enddrag" /\ active /\ last.body \in shapes
    /\ last.body \in sortedShapes /\ last.success = 0
    /\ \E z \in last.zones : Satisfies(last.body, z)
    /\ anims # {}

\* C12: once sortedCount has reached targetCount in an Active session the
\* session stays Active until a win callback fires, whatever else runs during
\* the delay, and the session is eventually Won (active false, won true).
TargetReached == active /\ sortedCount >= targetCount /\ winTimeouts > 0
C12_StaysActiveUntilWon ==
    /\ [][(TargetReached /\ ~WinTimeout) => active']_vars
    /\ TargetReached ~> (won /\ ~active)

\* C13: a countdown tick that brings timeRemaining to 0 in a session that is
\* not won and has sortedCount below targetCount leaves the session inactive
\* with won still false and no countdown running, and a startGame that
\* follows (drag start or button click) begins a new Active session.
TimesOut == CountdownTick /\ active /\ ~won /\ sortedCount < targetCount /\ timeRemaining' = 0
C13_TimeoutEndsSessionAndAllowsRestart ==
    /\ [][TimesOut => ~active' /\ ~won' /\ LiveIntervals' = 0]_vars
    /\ [][(~active /\ ~won /\ StartGamePath) =>
             /\ active' /\ timeRemaining' = InitialTime
             /\ sortedCount' = 0 /\ sortedShapes' = {}]_vars

\* C14: startGame (by drag start or button click) from a session that is
\* neither Active nor won yields active = true, timeRemaining = 30,
\* sortedCount = 0, sortedShapes empty and exactly one live countdown,
\* whatever the previous session left behind.
C14_StartGameFromIdleResets ==
    [][(~active /\ ~won /\ StartGamePath) =>
          /\ active' /\ ~won' /\ timeRemaining' = InitialTime
          /\ sortedCount' = 0 /\ sortedShapes' = {}
          /\ LiveIntervals' = 1]_vars

\* the step is a dragStart
StartsDrag == mouseBody = NoShape /\ mouseBody' # NoShape
\* C15: a dragStart starts a session exactly when the session is neither
\* Active nor won; in an Active or a won session it leaves active,
\* timeRemaining, sortedCount and sortedShapes unchanged; it plays the pickup
\* cue once in all three states.
C15_DragStartStartsOnlyFromIdle ==
    [][StartsDrag =>
         \A b \in Bodies \cup {StaticBody} :
            StartDrag(b) =>
               /\ IF ~active /\ ~won
                  THEN /\ active' /\ timeRemaining' = InitialTime
                       /\ sortedCount' = 0 /\ sortedShapes' = {}
                       /\ timerInterval' = "live"
                  ELSE UNCHANGED <<active, timeRemaining, sortedCount, sortedShapes,
                                   timerInterval, staleIntervals>>
               /\ won' = won
               /\ last'.pickup = 1]_vars
\* a shape picked up in a won session: no session starts, the cue plays
C15_Witness ==
    /\ last.op = "startdrag" /\ last.pickup = 1 /\ last.body \in shapes
    /\ won /\ ~active /\ timerInterval = "cleared"

\* the game state of the claims, with the timers, the animations and the drag
GameState == <<GameVars, won, winTimeouts, popupHidden, popupShows, anims,
               mouseBody, draggedShape, RegistryVars, ViewVars>>
\* C16: a hover tick with a shape held changes no game state (active, won,
\* timeRemaining, sortedCount, sortedShapes, registry); in a session that is
\* not Active it changes no emphasis, and in an Active one it sets each zone's
\* emphasis to exactly (the held shape lies in the zone's rectangle and
\* satisfies the zone's predicate).
C16_HoverTickOnlySetsEmphasis ==
    [][(draggedShape # NoShape /\ UNCHANGED <<mouseBody, timeRemaining, anims, nextId>>) =>
         \A p \in Points :
            AfterUpdate(p) =>
               /\ UNCHANGED GameState
               /\ IF active
                  THEN /\ glowYellow' = QualifiesFor(draggedShape, p, "yellow")
                       /\ glowBlue' = QualifiesFor(draggedShape, p, "blue")
                  ELSE UNCHANGED <<glowYellow, glowBlue>>]_vars
\* a cube that is not yellow held over the overlap of the zones: blue alone glows
C16_Witness ==
    /\ active /\ draggedShape # NoShape /\ mouseBody = draggedShape
    /\ glowBlue /\ ~glowYellow /\ last = NoDrag
    /\ Satisfies(draggedShape, "blue") /\ ~Satisfies(draggedShape, "yellow")

\* the step is a dragEnd
EndsDrag == mouseBody # NoShape /\ mouseBody' = NoShape
\* C17: every dragEnd, in an Active session or not, leaves the emphasis of
\* both zones false and the held-shape reference cleared, and from a dragEnd
\* until the next dragStart no zone is emphasized by hover feedback.
C17_DragEndClearsEmphasis ==
    /\ [][EndsDrag => /\ ~glowYellow' /\ ~glowBlue'
                      /\ draggedShape' = NoShape]_vars
    /\ [](mouseBody = NoShape => ~glowYellow /\ ~glowBlue)
\* a shape held while its session timed out, dropped over a zone
C17_Witness ==
    /\ last.op = "enddrag" /\ last.body \in shapes /\ last.zones # {}
    /\ ~active /\ ~won /\ timeRemaining = 0
    /\ bridgePresent /\ audioPresent
    /\ ~glowYellow /\ ~glowBlue /\ draggedShape = NoShape

\* C18: a dragEnd or a dragStart whose body matches no shape of the registry
\* (a shape already removed, a wall, the door) leaves sortedCount,
\* sortedShapes, timeRemaining, active and won unchanged and raises no fault.
C18_UnregisteredBodyIsNoOp ==
    [][((EndsDrag /\ mouseBody \notin shapes) \/ (StartsDrag /\ mouseBody' \notin shapes)) =>
          /\ UNCHANGED <<sortedCount, sortedShapes, timeRemaining, active, won>>
          /\ ~last'.threw]_vars

\* What a dragEnd does to the game state, written without reference to the
\* bridge, from the zones that hold the position it read: the credit, and
\* with Web Audio what follows the cue.
DropEffect ==
    LET b == mouseBody
        credit == /\ active /\ b \in shapes /\ b \notin sortedShapes
                  /\ \E z \in last'.zones : Satisfies(b, z)
        reached == sortedCount + 1 >= targetCount IN
    /\ sortedShapes' = IF credit THEN sortedShapes \cup {b} ELSE sortedShapes
    /\ sortedCount' = IF credit THEN sortedCount + 1 ELSE sortedCount
    /\ audioPresent =>
          /\ anims' = IF credit THEN anims \cup {<<b, 1>>} ELSE anims
          /\ winTimeouts' = IF credit /\ reached THEN winTimeouts + 1 ELSE winTimeouts
          /\ draggedShape' = NoShape
          /\ last'.success = IF credit THEN 1 ELSE 0
    /\ UNCHANGED <<active, won, timeRemaining, timerInterval, staleIntervals,
                   shapes, world, nextId, popupHidden>>
\* C19: the game state evolves the same with and without the feedback
\* bridge: the handlers that call the bridge (hover tick, dragEnd) take the
\* game state to a successor that is a function of the game state and the
\* event alone, whichever the environment, so two runs fed the same events
\* agree at every step; and a run without the bridge makes no bridge call and
\* raises no fault that the run with it does not raise.
C19_BridgeDoesNotSteerTheGame ==
    /\ [][(active /\ draggedShape # NoShape /\ last' = NoDrag
              /\ UNCHANGED <<mouseBody, timeRemaining, anims, nextId>>) =>
            \A p \in Points : AfterUpdate(p) => UNCHANGED GameState]_vars
    /\ [][EndsDrag => DropEffect]_vars
    /\ [](~bridgePresent => /\ ~glowYellow /\ ~glowBlue
                            /\ last.flashYellow = 0 /\ last.flashBlue = 0)
    /\ [](last.threw => ~audioPresent)
\* without the bridge: the fifth credit of a session, its win callback pending
C19_Witness ==
    /\ ~bridgePresent /\ audioPresent
    /\ last.op = "enddrag" /\ last.success = 1 /\ last.scheduled = 1
    /\ active /\ sortedCount = targetCount /\ winTimeouts = 1
    /\ <<last.body, 1>> \in anims /\ draggedShape = NoShape

\* C20: without Web Audio the cues degrade silently: no handler raises a
\* fault, a dragStart still records the held shape, and a qualifying dragEnd
\* still starts the removal animation, flashes the zone, schedules the win
\* callback when sortedCount reaches targetCount and clears the held shape.
C20_CuesDegradeSilently ==
    /\ [](~audioPresent => ~last.threw)
    /\ [][(~audioPresent /\ StartsDrag) => draggedShape' = find(mouseBody')]_vars
    /\ [][(~audioPresent /\ DropsShape /\ mouseBody \notin sortedShapes
              /\ \E z \in last'.zones : Satisfies(mouseBody, z)) =>
             /\ <<mouseBody, 1>> \in anims'
             /\ bridgePresent => last'.flashYellow + last'.flashBlue = 1
             /\ sortedCount + 1 >= targetCount => winTimeouts' = winTimeouts + 1
             /\ draggedShape' = NoShape]_vars

\* C21: one dragEnd credits at most once: the zones are tried yellow first,
\* then blue, and the first that holds the position and accepts the shape
\* ends the test, so sortedCount grows by at most 1 per dragEnd, one cue is
\* played and one zone flashes, also where the two rectangles overlap and the
\* shape satisfies both predicates.
C21_OneCreditPerDragEnd ==
    [][EndsDrag =>
         /\ sortedCount' <= sortedCount + 1
         /\ Cardinality(sortedShapes' \ sortedShapes) <= 1
         /\ last'.success <= 1
         /\ last'.flashYellow + last'.flashBlue <= 1
         /\ winTimeouts' <= winTimeouts + 1
         /\ (last'.flashBlue = 1) => ~(/\ "yellow" \in last'.zones
                                       /\ Satisfies(mouseBody, "yellow"))]_vars
\* a yellow cube dropped in the overlap of the rectangles: one credit
C21_Witness ==
    /\ width < 2 * bucketWidth /\ last.op = "enddrag" /\ last.zones = Zones
    /\ ColorOf(last.body) = "#FFFF00" /\ TypeOf(last.body) = "cube"
    /\ last.success = 1 /\ sortedCount = 1 /\ sortedShapes = {last.body}

\* C22: a countdown tick lowers timeRemaining by exactly 1, timeRemaining
\* stays within 0..30 in every reachable state, and no tick fires once it has
\* reached 0 until a startGame resets it to 30.
C22_TimeRemainingStaysInRange ==
    /\ [](timeRemaining >= 0 /\ timeRemaining <= InitialTime)
    /\ [][timeRemaining' # timeRemaining =>
            \/ timeRemaining' = timeRemaining - 1 /\ timeRemaining > 0
            \/ timeRemaining' = InitialTime /\ StartGamePath]_vars

\* C23: in every reachable state the game UI panel and the bucket visual are
\* visible exactly when the session is Active and the reward panel is visible
\* only if won is true; every step keeps them so, and a countdown tick (a
\* loss included) shows no panel.
C23_PanelsFollowTheSession ==
    /\ [](gameUIHidden = ~active /\ bucketHidden = ~active)
    /\ [](~popupHidden => won)
    /\ [][(popupHidden /\ ~popupHidden') => (WinTimeout /\ won')]_vars
    /\ [][timeRemaining' = timeRemaining - 1 => popupHidden' = popupHidden]_vars
\* after a loss: nothing is shown
C23_Witness ==
    /\ ~active /\ ~won /\ timeRemaining = 0 /\ timerInterval = "cleared"
    /\ gameUIHidden /\ bucketHidden /\ popupHidden /\ sortedCount > 0

\* C24: a shape leaves the registry and the world only through the removal
\* animation of a credited drop: a body is removed only by an animation
\* frame that ends an animation of it, an animation starts only in the
\* dragEnd that credits its shape and otherwise continues one in flight, so
\* no startGame, endGame, countdown tick, hover tick or non-qualifying drop
\* removes a shape.
C24_OnlyCreditedShapesAreRemoved ==
    /\ [][\A b \in (shapes \ shapes') \cup (world \ world') :
            AnimationFrame /\ Animating(b)]_vars
    /\ [][\A a \in anims' \ anims :
            IF a[2] = 1
            THEN /\ EndsDrag /\ a[1] = mouseBody
                 /\ a[1] \notin sortedShapes /\ a[1] \in sortedShapes'
            ELSE <<a[1], a[2] - 1>> \in anims]_vars
\* a shape never credited, still there after a drop in a zone that refused
\* it, a restart by the button and a timeout
C24_Witness ==
    /\ shapes = {1} /\ world = {1} /\ nextId = 2 /\ anims = {}
    /\ sortedCount = 0 /\ ~active /\ ~won /\ timeRemaining <= 0
    /\ staleIntervals > 0

\* the step is an afterUpdate tick of the overlay's page while a shape is held
\* in an Active session
HoversShape ==
    /\ active /\ draggedShape # NoShape /\ bridgePresent
    /\ UNCHANGED <<mouseBody, draggedShape, GameVars, anims, nextId, winTimeouts, won>>
\* C25: the two zones are a function of the current viewport only: the
\* yellow zone's left edge is 0, the blue zone's right edge is the viewport
\* width, both are bucketWidth wide and share one vertical band; and every
\* membership test of a hover tick or a dragEnd is made against the
\* rectangles of the viewport of that moment, so that after a resize to a
\* viewport where the zones are apart no drop lies in both.
C25_ZonesFollowTheViewport ==
    /\ [](LET r == getBucketBounds(width, height) IN
            /\ r.yellow.left = 0 /\ r.blue.right = width
            /\ r.yellow.right - r.yellow.left = bucketWidth
            /\ r.blue.right - r.blue.left = bucketWidth
            /\ r.yellow.top = r.blue.top /\ r.yellow.bottom = r.blue.bottom
            /\ r.yellow.top = topOffset(height)
            /\ r.yellow.bottom - r.yellow.top = dropZoneHeight)
    /\ [][UNCHANGED ViewVars =>
            getBucketBounds(width', height') = getBucketBounds(width, height)]_vars
    /\ [](width >= 2 * bucketWidth + 1 => last.zones # Zones)
    /\ [][EndsDrag =>
            \A p \in Points :
               EndDrag(p) =>
                  /\ last'.zones = {z \in Zones : InZone(p, z)}
                  /\ (DropsShape /\ mouseBody \notin sortedShapes) =>
                        (last'.success = 1 <=>
                            \E z \in Zones : QualifiesFor(mouseBody, p, z))]_vars
    /\ [][HoversShape =>
            \A p \in Points :
               AfterUpdate(p) =>
                  /\ glowYellow' = QualifiesFor(draggedShape, p, "yellow")
                  /\ glowBlue' = QualifiesFor(draggedShape, p, "blue")]_vars
\* after a resize to the wide viewport, a cube credited in the blue zone at
\* a position that lay outside both zones of the narrow one
C25_Witness ==
    /\ <<width, height>> # InitialViewport
    /\ last.op = "enddrag" /\ last.zones = {"blue"} /\ last.success = 1
    /\ last.flashBlue = 1 /\ TypeOf(last.body) = "cube"
    /\ width - bucketWidth > InitialViewport[1]

\* C26: won becomes true only in a session whose sortedCount has reached
\* targetCount, a win callback scheduled in one session never ends a later
\* one, and so in every reachable state won implies
\* sortedCount >= targetCount.
C26_WonOnlyWithTargetReached ==
    /\ [](won => sortedCount >= targetCount)
    /\ [][(~won /\ won') => sortedCount >= targetCount]_vars

\* C27: sortedCount never exceeds targetCount: no shape is credited after the
\* fifth credit of a session, the delay between the fifth credit and the win
\* transition included.
C27_CountNeverExceedsTarget ==
    /\ [](sortedCount <= targetCount)
    /\ [][sortedCount >= targetCount => sortedCount' <= sortedCount]_vars

\* C28: every Active session eventually leaves Active: with the countdown
\* callback running when due and no call of startGame during the session,
\* an Active session has between 1 and InitialTime seconds left, nothing
\* but a countdown tick changes what is left, each tick takes one second
\* off, and the tick that reaches 0 ends the session if no win ended it
\* before; so active becomes false within InitialTime ticks of the startGame
\* that began the session.
C28_SessionEnds ==
    /\ active ~> ~active
    /\ [](active => timeRemaining >= 1 /\ timeRemaining <= InitialTime)
    /\ [][(active /\ timeRemaining' # timeRemaining) =>
            /\ timeRemaining' = timeRemaining - 1
            /\ timeRemaining' = 0 => ~active']_vars
    /\ [][(~active /\ active') => timeRemaining' = InitialTime]_vars
\* a session that no win ended, ended by the thirtieth tick
C28_Witness ==
    /\ ~active /\ ~won /\ timeRemaining = 0 /\ timerInterval = "cleared"
    /\ winTimeouts = 0 /\ sortedCount < targetCount /\ last = NoDrag
    /\ mouseBody # NoShape

====
